---------------------------- MODULE Spec2Model ----------------------------
(* A model of src/home1.py: the contact manager's field validators, Record, *)
(* AddressBook, the pickle persistence helpers and the interactive loop.    *)
(*                                                                          *)
(* Python strings are modelled as sequences of one-character strings, so    *)
(* that the regular expressions of the validators can be evaluated on them. *)
EXTENDS Integers, Sequences, FiniteSets, TLC

VARIABLES
    rec,      \* RecordSpec: one Record object under test
    data,     \* AddressBook.data: insertion-ordered sequence of [key, rec]
    fs,       \* the file system: location -> <<>> (missing) or <<pickle>>
    loaded,   \* PersistSpec: what the last load_data call returned
    pc,       \* AppSpec: "running", "exited" (after exit) or "crashed"
    out,      \* AppSpec: the last message given to view.display
    last,     \* the last call made: operation, arguments, error raised
    before    \* the state the last call started from

vars == <<rec, data, fs, loaded, pc, out, last, before>>

-----------------------------------------------------------------------------
(* Bounds of the model *)

\* longest phone list a Record of RecordSpec is grown to
MaxPhones == 3
\* longest phone list a Record inside the AddressBook of Spec is grown to
MaxBookPhones == 1
\* longest phone list of a Record that is saved, loaded or added to by the
\* interactive loop
MaxAppPhones == 2

\* the {10} of the pattern r"\d{10}"
PhoneLen == 10

-----------------------------------------------------------------------------
(* Strings *)

Rep(c, n) == [i \in 1..n |-> c]

Digits == {"0", "1", "2", "3", "4", "5", "6", "7", "8", "9"}
NonZero == Digits \ {"0"}

DigitVal(c) ==
    CASE c = "0" -> 0 [] c = "1" -> 1 [] c = "2" -> 2 [] c = "3" -> 3
      [] c = "4" -> 4 [] c = "5" -> 5 [] c = "6" -> 6 [] c = "7" -> 7
      [] c = "8" -> 8 [] c = "9" -> 9 [] OTHER -> 0

\* int(s) for a string of digits, leading blanks skipped as int() does
RECURSIVE ToInt(_)
ToInt(s) ==
    IF s = <<>> THEN 0
    ELSE IF s[Len(s)] = " " THEN ToInt(SubSeq(s, 1, Len(s) - 1))
    ELSE 10 * ToInt(SubSeq(s, 1, Len(s) - 1)) + DigitVal(s[Len(s)])

-----------------------------------------------------------------------------
(* Error messages of the ValueErrors the model classes raise *)

NoError == "none"
PhoneFormatError == "Phone number must be exactly 10 digits."
DateFormatError == "Invalid date format. Use DD.MM.YYYY"
PhoneNotFoundError == "Phone number not found."

-----------------------------------------------------------------------------
(* Field validators *)

\* re.fullmatch(r"\d{10}", value); \d is taken over the characters of the
\* inputs below, where the decimal digits are "0" .. "9"
PhoneMatches(value) ==
    /\ Len(value) = PhoneLen
    /\ \A i \in 1..Len(value) : value[i] \in Digits

\* Phone.__init__ raises ValueError
PhoneRaises(value) == ~PhoneMatches(value)

\* the group (?P<d>3[0-1]|[1-2]\d|0[1-9]|[1-9]| [1-9]) that %d compiles to
DayGroup(s) ==
    \/ /\ Len(s) = 2
       /\ \/ s[1] = "3" /\ s[2] \in {"0", "1"}
          \/ s[1] \in {"1", "2"} /\ s[2] \in Digits
          \/ s[1] = "0" /\ s[2] \in NonZero
          \/ s[1] = " " /\ s[2] \in NonZero
    \/ Len(s) = 1 /\ s[1] \in NonZero

\* the group (?P<m>1[0-2]|0[1-9]|[1-9]) that %m compiles to
MonthGroup(s) ==
    \/ /\ Len(s) = 2
       /\ \/ s[1] = "1" /\ s[2] \in {"0", "1", "2"}
          \/ s[1] = "0" /\ s[2] \in NonZero
    \/ Len(s) = 1 /\ s[1] \in NonZero

\* the group (?P<Y>\d\d\d\d) that %Y compiles to
YearGroup(s) == Len(s) = 4 /\ \A i \in 1..4 : s[i] \in Digits

IsLeap(y) == y % 4 = 0 /\ (y % 100 # 0 \/ y % 400 = 0)

DaysInMonth(y, m) ==
    IF m = 2 THEN (IF IsLeap(y) THEN 29 ELSE 28)
    ELSE IF m \in {4, 6, 9, 11} THEN 30 ELSE 31

\* datetime(year, month, day) accepts the triple
CalendarDate(y, m, d) ==
    /\ y >= 1
    /\ m \in 1..12
    /\ d >= 1 /\ d <= DaysInMonth(y, m)

\* datetime.strptime(value, "%d.%m.%Y") returns: the whole string matches
\* day "." month "." year and the three numbers are a calendar date
StrptimeOk(value) ==
    \E i \in 1..Len(value) : \E j \in (i + 1)..Len(value) :
        /\ value[i] = "." /\ value[j] = "."
        /\ DayGroup(SubSeq(value, 1, i - 1))
        /\ MonthGroup(SubSeq(value, i + 1, j - 1))
        /\ YearGroup(SubSeq(value, j + 1, Len(value)))
        /\ CalendarDate(ToInt(SubSeq(value, j + 1, Len(value))),
                        ToInt(SubSeq(value, i + 1, j - 1)),
                        ToInt(SubSeq(value, 1, i - 1)))

\* Birthday.__init__ raises ValueError
BirthdayRaises(value) == ~StrptimeOk(value)

-----------------------------------------------------------------------------
(* Record.  phones is the list of the Phone values; birthday is <<>> for    *)
(* None and <<value>> for a Birthday.  An operation yields the record it    *)
(* leaves and the error it raised.                                          *)

Record(name) == [name |-> name, phones |-> <<>>, birthday |-> <<>>]

Returned(r) == [rec |-> r, err |-> NoError]
Raised(r, e) == [rec |-> r, err |-> e]

add_phone_unchecked(r, phone_number) ==
    IF PhoneRaises(phone_number)
    THEN Raised([r EXCEPT !.phones = Append(@, phone_number)], PhoneFormatError)
    ELSE Returned([r EXCEPT !.phones = Append(@, phone_number)])

add_phone(r, phone_number) ==
    IF PhoneRaises(phone_number)
    THEN Raised(r, PhoneFormatError)
    ELSE Returned([r EXCEPT !.phones = Append(@, phone_number)])

\* the index of the first entry equal to phone_number, 0 when there is none
FirstIndex(phones, phone_number) ==
    IF \E i \in 1..Len(phones) : phones[i] = phone_number
    THEN CHOOSE i \in 1..Len(phones) :
            /\ phones[i] = phone_number
            /\ \A j \in 1..(i - 1) : phones[j] # phone_number
    ELSE 0

remove_phone_first(r, phone_number) ==
    LET i == FirstIndex(r.phones, phone_number) IN
    Returned([r EXCEPT !.phones =
        IF i = 0 THEN @ ELSE SubSeq(@, 1, i - 1) \o SubSeq(@, i + 1, Len(@))])

remove_phone(r, phone_number) ==
    Returned([r EXCEPT !.phones = SelectSeq(@, LAMBDA p : p # phone_number)])

edit_phone_all(r, old_number, new_number) ==
    IF FirstIndex(r.phones, old_number) = 0 THEN Raised(r, PhoneNotFoundError)
    ELSE IF PhoneRaises(new_number) THEN Raised(r, PhoneFormatError)
    ELSE Returned([r EXCEPT !.phones =
            [k \in 1..Len(@) |-> IF @[k] = old_number THEN new_number ELSE @[k]]])

edit_phone_validate_first(r, old_number, new_number) ==
    IF PhoneRaises(new_number) THEN Raised(r, PhoneFormatError)
    ELSE IF FirstIndex(r.phones, old_number) = 0 THEN Raised(r, PhoneNotFoundError)
    ELSE Returned([r EXCEPT !.phones[FirstIndex(r.phones, old_number)] = new_number])

\* the loop reaches Phone(new_number) only at the first entry equal to
\* old_number; with no such entry it falls through to the final raise
edit_phone(r, old_number, new_number) ==
    LET i == FirstIndex(r.phones, old_number) IN
    IF i = 0 THEN Raised(r, PhoneNotFoundError)
    ELSE IF PhoneRaises(new_number) THEN Raised(r, PhoneFormatError)
    ELSE Returned([r EXCEPT !.phones[i] = new_number])

add_birthday(r, date) ==
    IF BirthdayRaises(date)
    THEN Raised(r, DateFormatError)
    ELSE Returned([r EXCEPT !.birthday = <<date>>])

-----------------------------------------------------------------------------
(* Inputs *)

Alice == <<"A", "l", "i", "c", "e">>
Bob == <<"B", "o", "b">>
Names == {Alice, Bob}

P1 == Rep("1", PhoneLen)
P2 == Rep("2", PhoneLen)
P3 == Rep("3", PhoneLen)
TooShort == Rep("1", PhoneLen - 1)
TooLong == Rep("1", PhoneLen + 1)
WithLetter == Rep("1", PhoneLen - 1) \o <<"a">>

ValidPhones == {P1, P2, P3}
InvalidPhones == {TooShort, TooLong, WithLetter}
PhoneInputs == ValidPhones \cup InvalidPhones

D_15_06_1990 == <<"1", "5", ".", "0", "6", ".", "1", "9", "9", "0">>
D_29_02_2024 == <<"2", "9", ".", "0", "2", ".", "2", "0", "2", "4">>
D_29_02_2023 == <<"2", "9", ".", "0", "2", ".", "2", "0", "2", "3">>
D_31_04_2024 == <<"3", "1", ".", "0", "4", ".", "2", "0", "2", "4">>
D_99_99_9999 == <<"9", "9", ".", "9", "9", ".", "9", "9", "9", "9">>
D_01_01_0000 == <<"0", "1", ".", "0", "1", ".", "0", "0", "0", "0">>
D_Iso == <<"2", "0", "2", "4", "-", "0", "2", "-", "3", "1">>
D_1_2_2020 == <<"1", ".", "2", ".", "2", "0", "2", "0">>

DateInputs ==
    {D_15_06_1990, D_29_02_2024, D_29_02_2023, D_31_04_2024, D_99_99_9999,
     D_01_01_0000, D_Iso, D_1_2_2020}

\* the default filename of save_data and load_data, and another location
DefaultFile == "addressbook.pkl"
Locs == {DefaultFile, "backup.pkl"}
NoFiles == [l \in Locs |-> <<>>]

NoCall == [op |-> "none", name |-> <<>>, a |-> <<>>, b |-> <<>>, err |-> NoError]
Call(op, name, a, b, err) == [op |-> op, name |-> name, a |-> a, b |-> b, err |-> err]

-----------------------------------------------------------------------------
(* RecordSpec: the operations of one Record *)

RecordInit ==
    /\ rec \in {Record(n) : n \in Names}
    /\ data = <<>>
    /\ fs = NoFiles
    /\ loaded = <<>>
    /\ pc = "running"
    /\ out = ""
    /\ last = NoCall
    /\ before = <<>>

RecordFrame == UNCHANGED <<data, fs, loaded, pc, out>>

RecAddPhone ==
    \E raw \in PhoneInputs :
        /\ Len(rec.phones) < MaxPhones
        /\ rec' = add_phone(rec, raw).rec
        /\ last' = Call("add_phone", rec.name, raw, <<>>, add_phone(rec, raw).err)
        /\ before' = rec
        /\ RecordFrame

RecRemovePhone ==
    \E raw \in PhoneInputs :
        /\ rec' = remove_phone(rec, raw).rec
        /\ last' = Call("remove_phone", rec.name, raw, <<>>, remove_phone(rec, raw).err)
        /\ before' = rec
        /\ RecordFrame

RecEditPhone ==
    \E old \in PhoneInputs, new \in PhoneInputs :
        /\ rec' = edit_phone(rec, old, new).rec
        /\ last' = Call("edit_phone", rec.name, old, new, edit_phone(rec, old, new).err)
        /\ before' = rec
        /\ RecordFrame

RecAddBirthday ==
    \E date \in DateInputs :
        /\ rec' = add_birthday(rec, date).rec
        /\ last' = Call("add_birthday", rec.name, date, <<>>, add_birthday(rec, date).err)
        /\ before' = rec
        /\ RecordFrame

RecordNext == RecAddPhone \/ RecRemovePhone \/ RecEditPhone \/ RecAddBirthday

RecordSpec == RecordInit /\ [][RecordNext]_vars

-----------------------------------------------------------------------------
(* What the claims call a phone of exactly 10 decimal digits *)

TenDecimalDigits(s) == Len(s) = 10 /\ \A i \in 1..Len(s) : s[i] \in Digits

Occurs(phones, p) == \E i \in 1..Len(phones) : phones[i] = p

\* C2 as stated: edit_phone(old, new) with a new that is not 10 decimal
\* digits fails with the invalid-phone-format error, whatever old is, and
\* leaves the phone sequence unchanged.
C2_AsStated ==
    (last.op = "edit_phone" /\ ~TenDecimalDigits(last.b)) =>
        /\ last.err = PhoneFormatError
        /\ rec.phones = before.phones

\* C2 amended: edit_phone(old, new) with a new that is not 10 decimal digits
\* leaves the record unchanged and fails: with the invalid-phone-format error
\* when some phone equals old, with phone-not-found when none does.
C2_InvalidNew ==
    (last.op = "edit_phone" /\ ~TenDecimalDigits(last.b)) =>
        /\ rec = before
        /\ Occurs(before.phones, last.a) => last.err = PhoneFormatError
        /\ ~Occurs(before.phones, last.a) => last.err = PhoneNotFoundError

C2_Witness ==
    /\ last.op = "edit_phone"
    /\ ~TenDecimalDigits(last.b)
    /\ Occurs(before.phones, last.a)
    /\ Len(before.phones) >= 2
    /\ last.err = PhoneFormatError

\* C3: with a valid new, edit_phone(old, new) replaces only the first entry
\* equal to old, keeping every other entry and the order; when no phone
\* equals old it fails with phone-not-found and the sequence is unchanged.
C3_EditFirstOnly ==
    (last.op = "edit_phone" /\ TenDecimalDigits(last.b)) =>
        IF Occurs(before.phones, last.a)
        THEN /\ last.err = NoError
             /\ Len(rec.phones) = Len(before.phones)
             /\ \E i \in 1..Len(before.phones) :
                    /\ before.phones[i] = last.a
                    /\ \A j \in 1..(i - 1) : before.phones[j] # last.a
                    /\ rec.phones[i] = last.b
                    /\ \A j \in 1..Len(before.phones) :
                           j # i => rec.phones[j] = before.phones[j]
        ELSE /\ last.err = PhoneNotFoundError
             /\ rec.phones = before.phones

\* old occurs twice, and only the first occurrence was replaced
C3_Witness ==
    /\ last.op = "edit_phone"
    /\ TenDecimalDigits(last.b)
    /\ last.a # last.b
    /\ Cardinality({i \in 1..Len(before.phones) : before.phones[i] = last.a}) >= 2
    /\ Occurs(rec.phones, last.a)
    /\ last.err = NoError

\* C6: add_phone(raw) appends raw at the end of the phone sequence when raw
\* is exactly 10 decimal digits, also when an equal phone is present;
\* otherwise it fails with the invalid-phone-format error and leaves name,
\* phones and birthday unchanged.
C6_AddPhone ==
    last.op = "add_phone" =>
        IF TenDecimalDigits(last.a)
        THEN /\ last.err = NoError
             /\ rec.phones = Append(before.phones, last.a)
             /\ rec.name = before.name
             /\ rec.birthday = before.birthday
        ELSE /\ last.err = PhoneFormatError
             /\ rec.name = before.name
             /\ rec.phones = before.phones
             /\ rec.birthday = before.birthday

\* a duplicate was appended to a record that has a birthday
C6_Witness ==
    /\ last.op = "add_phone"
    /\ TenDecimalDigits(last.a)
    /\ Occurs(before.phones, last.a)
    /\ before.birthday # <<>>
    /\ Len(rec.phones) = Len(before.phones) + 1

\* the entries of phones other than p, in order
RECURSIVE Without(_, _)
Without(phones, p) ==
    IF phones = <<>> THEN <<>>
    ELSE IF phones[1] = p THEN Without(Tail(phones), p)
    ELSE <<phones[1]>> \o Without(Tail(phones), p)

\* C7: remove_phone(raw) removes every entry equal to raw, keeps the other
\* entries in their relative order, and is a no-op raising no error when no
\* entry equals raw.
C7_RemoveAll ==
    last.op = "remove_phone" =>
        /\ last.err = NoError
        /\ ~Occurs(rec.phones, last.a)
        /\ rec.phones = Without(before.phones, last.a)
        /\ ~Occurs(before.phones, last.a) => rec = before
        /\ rec.name = before.name /\ rec.birthday = before.birthday

\* two equal entries were removed around one that stayed
C7_Witness ==
    /\ last.op = "remove_phone"
    /\ Len(before.phones) = 3
    /\ before.phones[1] = last.a /\ before.phones[3] = last.a
    /\ before.phones[2] # last.a
    /\ rec.phones = <<before.phones[2]>>

-----------------------------------------------------------------------------
(* AddressBook(UserDict).  data is a Python dict: an insertion-ordered      *)
(* mapping, modelled as the sequence of its items [key, rec].               *)

\* the position of key in the dict, 0 when it is not a key
KeyIndex(d, key) ==
    IF \E i \in 1..Len(d) : d[i].key = key
    THEN CHOOSE i \in 1..Len(d) : d[i].key = key
    ELSE 0

\* data[key] = value: a present key keeps its position, a new one goes last
SetItem(d, key, value) ==
    IF KeyIndex(d, key) = 0
    THEN Append(d, [key |-> key, rec |-> value])
    ELSE [d EXCEPT ![KeyIndex(d, key)].rec = value]

add_record_append(d, record) ==
    Append(d, [key |-> record.name, rec |-> record])

add_record(d, record) == SetItem(d, record.name, record)

\* data.get(name): <<>> for None, <<record>> for a record
find(d, name) ==
    IF KeyIndex(d, name) = 0 THEN <<>> ELSE <<d[KeyIndex(d, name)].rec>>

delete(d, name) ==
    IF KeyIndex(d, name) # 0
    THEN SelectSeq(d, LAMBDA item : item.key # name)
    ELSE d

\* the keys in listing order
Keys(d) == [i \in 1..Len(d) |-> d[i].key]

-----------------------------------------------------------------------------
(* Spec: an AddressBook and the Records in it, each Record reached with     *)
(* find(name) and changed in place.                                         *)

BookPhoneInputs == {P1, P2, TooShort}
BookDateInputs == {D_15_06_1990, D_1_2_2020, D_31_04_2024}

\* records handed to add_record: a new Record(name), the record the book
\* already holds under the name, and one built beforehand
RecordInputs(d) ==
    {Record(n) : n \in Names}
    \cup {d[i].rec : i \in 1..Len(d)}
    \cup {[name |-> n, phones |-> <<P2>>, birthday |-> <<D_15_06_1990>>] : n \in Names}

Init ==
    /\ rec = <<>>
    /\ data = <<>>
    /\ fs = NoFiles
    /\ loaded = <<>>
    /\ pc = "running"
    /\ out = ""
    /\ last = NoCall
    /\ before = <<>>

BookFrame == UNCHANGED <<rec, fs, loaded, pc, out>>

\* find(name) returned a record and `result` is what an operation on it gave
InPlace(name, result) == SetItem(data, name, result.rec)

BookAddRecord ==
    \E record \in RecordInputs(data) :
        /\ data' = add_record(data, record)
        /\ last' = Call("add_record", record.name, record, <<>>, NoError)
        /\ before' = data
        /\ BookFrame

BookDelete ==
    \E name \in Names :
        /\ data' = delete(data, name)
        /\ last' = Call("delete", name, <<>>, <<>>, NoError)
        /\ before' = data
        /\ BookFrame

BookAddPhone ==
    \E name \in Names, raw \in BookPhoneInputs :
        /\ find(data, name) # <<>>
        /\ Len(find(data, name)[1].phones) < MaxBookPhones
        /\ LET result == add_phone(find(data, name)[1], raw) IN
            /\ data' = InPlace(name, result)
            /\ last' = Call("add_phone", name, raw, <<>>, result.err)
        /\ before' = data
        /\ BookFrame

BookRemovePhone ==
    \E name \in Names, raw \in BookPhoneInputs :
        /\ find(data, name) # <<>>
        /\ LET result == remove_phone(find(data, name)[1], raw) IN
            /\ data' = InPlace(name, result)
            /\ last' = Call("remove_phone", name, raw, <<>>, result.err)
        /\ before' = data
        /\ BookFrame

BookEditPhone ==
    \E name \in Names, old \in BookPhoneInputs, new \in BookPhoneInputs :
        /\ find(data, name) # <<>>
        /\ LET result == edit_phone(find(data, name)[1], old, new) IN
            /\ data' = InPlace(name, result)
            /\ last' = Call("edit_phone", name, old, new, result.err)
        /\ before' = data
        /\ BookFrame

BookAddBirthday ==
    \E name \in Names, date \in BookDateInputs :
        /\ find(data, name) # <<>>
        /\ LET result == add_birthday(find(data, name)[1], date) IN
            /\ data' = InPlace(name, result)
            /\ last' = Call("add_birthday", name, date, <<>>, result.err)
        /\ before' = data
        /\ BookFrame

Next ==
    \/ BookAddRecord
    \/ BookDelete
    \/ BookAddPhone
    \/ BookRemovePhone
    \/ BookEditPhone
    \/ BookAddBirthday

Spec == Init /\ [][Next]_vars

\* the items stored under name, as a set: at most one for a dict
ItemsUnder(d, name) == {i \in 1..Len(d) : d[i].key = name}

\* C8: after add_record(record), find(record.name) returns that record, the
\* entries under other names and their listing order are unchanged, there is
\* at most one entry per name, and adding the same record once more changes
\* nothing.
C8_AddRecord ==
    last.op = "add_record" =>
        /\ find(data, last.name) = <<last.a>>
        /\ \A n \in Names \ {last.name} : find(data, n) = find(before, n)
        /\ \A n \in Names : Cardinality(ItemsUnder(data, n)) <= 1
        /\ Keys(data) = IF ItemsUnder(before, last.name) = {}
                        THEN Append(Keys(before), last.name)
                        ELSE Keys(before)
        /\ add_record(data, last.a) = data

\* a record with other contents replaced the first of two entries
C8_Witness ==
    /\ last.op = "add_record"
    /\ Len(before) = 2
    /\ before[1].key = last.name
    /\ before[1].rec # last.a
    /\ data[1].rec = last.a

\* a date of the form DD.MM.YYYY that is a day of the calendar
IsDDMMYYYY(s) ==
    /\ Len(s) = 10
    /\ s[3] = "." /\ s[6] = "."
    /\ \A i \in {1, 2, 4, 5, 7, 8, 9, 10} : s[i] \in Digits
    /\ CalendarDate(ToInt(SubSeq(s, 7, 10)), ToInt(SubSeq(s, 4, 5)),
                    ToInt(SubSeq(s, 1, 2)))

PhonesValid ==
    \A i \in 1..Len(data) : \A k \in 1..Len(data[i].rec.phones) :
        TenDecimalDigits(data[i].rec.phones[k])

KeysAreNames == \A i \in 1..Len(data) : data[i].key = data[i].rec.name

BirthdaysValid ==
    \A i \in 1..Len(data) :
        data[i].rec.birthday # <<>> => IsDDMMYYYY(data[i].rec.birthday[1])

\* C10: in every reachable state every phone of every Record of the book is
\* exactly 10 decimal digits, every birthday is absent or a valid DD.MM.YYYY
\* date, and every entry is stored under its record's name.
C10_AsStated == PhonesValid /\ BirthdaysValid /\ KeysAreNames

\* the part of C10 that the code keeps
C10_PhonesAndKeys == PhonesValid /\ KeysAreNames

-----------------------------------------------------------------------------
(* Persistence.  pickle.dump writes the book as a stream of opcodes and     *)
(* pickle.load rebuilds it by running them: per dict item the key, the      *)
(* Record's name, a mark, the phone values, the list built from the mark,   *)
(* the birthday or None, and the store of the item into the dict.           *)

Tok(op, arg) == [op |-> op, arg |-> arg]

PicklePhones(phones) == [k \in 1..Len(phones) |-> Tok("PHONE", phones[k])]

PickleRecord_no_birthday(key, r) ==
    <<Tok("KEY", key), Tok("NAME", r.name), Tok("MARK", <<>>)>>
    \o PicklePhones(r.phones)
    \o <<Tok("LIST", <<>>), Tok("NONE", <<>>), Tok("SETITEM", <<>>)>>

PickleRecord(key, r) ==
    <<Tok("KEY", key), Tok("NAME", r.name), Tok("MARK", <<>>)>>
    \o PicklePhones(r.phones)
    \o <<Tok("LIST", <<>>)>>
    \o (IF r.birthday = <<>>
        THEN <<Tok("NONE", <<>>)>>
        ELSE <<Tok("BIRTHDAY", r.birthday[1])>>)
    \o <<Tok("SETITEM", <<>>)>>

RECURSIVE Pickle(_)
Pickle(d) ==
    IF d = <<>> THEN <<>>
    ELSE PickleRecord(d[1].key, d[1].rec) \o Pickle(Tail(d))

\* one opcode of the unpickler, on the machine state m
Step(m, t) ==
    CASE t.op = "KEY" -> [m EXCEPT !.key = t.arg]
      [] t.op = "NAME" -> [m EXCEPT !.cur = Record(t.arg)]
      [] t.op = "MARK" -> [m EXCEPT !.list = <<>>]
      [] t.op = "PHONE" -> [m EXCEPT !.list = Append(@, t.arg)]
      [] t.op = "LIST" -> [m EXCEPT !.cur.phones = m.list]
      [] t.op = "NONE" -> [m EXCEPT !.cur.birthday = <<>>]
      [] t.op = "BIRTHDAY" -> [m EXCEPT !.cur.birthday = <<t.arg>>]
      [] t.op = "SETITEM" -> [m EXCEPT !.dict = SetItem(@, m.key, m.cur)]

RECURSIVE Run(_, _)
Run(m, ops) == IF ops = <<>> THEN m ELSE Run(Step(m, ops[1]), Tail(ops))

Unpickle(ops) ==
    Run([dict |-> <<>>, key |-> <<>>, cur |-> Record(<<>>), list |-> <<>>], ops).dict

\* save_data(book, filename)
save_data(files, book, filename) == [files EXCEPT ![filename] = <<Pickle(book)>>]

\* load_data(filename): FileNotFoundError gives AddressBook()
load_data(files, filename) ==
    IF files[filename] = <<>> THEN <<>> ELSE Unpickle(files[filename][1])

-----------------------------------------------------------------------------
(* PersistSpec: save_data and load_data of an AddressBook *)

PhoneLists(k) == UNION {[1..m -> {P1, P2}] : m \in 0..k}

RecordSamples(n) ==
    {[name |-> n, phones |-> ps, birthday |-> b] :
        ps \in PhoneLists(MaxAppPhones), b \in {<<>>, <<D_15_06_1990>>}}

\* the books over Names, in every listing order
BookSamples ==
    {<<>>}
    \cup {<<[key |-> n, rec |-> r]>> : n \in Names, r \in UNION {RecordSamples(k) : k \in Names}}
    \cup {<<[key |-> Alice, rec |-> ra], [key |-> Bob, rec |-> rb]>> :
            ra \in RecordSamples(Alice), rb \in RecordSamples(Bob)}
    \cup {<<[key |-> Bob, rec |-> rb], [key |-> Alice, rec |-> ra]>> :
            ra \in RecordSamples(Alice), rb \in RecordSamples(Bob)}

PersistInit ==
    /\ rec = <<>>
    /\ data \in {d \in BookSamples : \A i \in 1..Len(d) : d[i].key = d[i].rec.name}
    /\ fs = NoFiles
    /\ loaded = <<>>
    /\ pc = "running"
    /\ out = ""
    /\ last = NoCall
    /\ before = <<>>

PersistSave ==
    \E filename \in Locs :
        /\ fs' = save_data(fs, data, filename)
        /\ last' = Call("save_data", filename, <<>>, <<>>, NoError)
        /\ before' = fs
        /\ UNCHANGED <<rec, data, loaded, pc, out>>

PersistLoad ==
    \E filename \in Locs :
        /\ loaded' = load_data(fs, filename)
        /\ last' = Call("load_data", filename, <<>>, <<>>, NoError)
        /\ before' = fs
        /\ UNCHANGED <<rec, data, fs, pc, out>>

PersistNext == PersistSave \/ PersistLoad

PersistSpec == PersistInit /\ [][PersistNext]_vars

KeySet(d) == {d[i].key : i \in 1..Len(d)}

\* C5: load after save(B) to the same location yields a book with the same
\* set of names and, for each name, the same phone sequence and the same
\* birthday as B; load on a location never saved to yields an empty book and
\* raises nothing.
C5_RoundTrip ==
    last.op = "load_data" =>
        /\ last.err = NoError
        /\ IF fs[last.name] = <<>>
           THEN loaded = <<>>
           ELSE /\ KeySet(loaded) = KeySet(data)
                /\ \A n \in KeySet(data) :
                    /\ Cardinality(ItemsUnder(loaded, n)) = 1
                    /\ find(loaded, n)[1].name = find(data, n)[1].name
                    /\ find(loaded, n)[1].phones = find(data, n)[1].phones
                    /\ find(loaded, n)[1].birthday = find(data, n)[1].birthday

\* a saved book of two contacts came back, one with two different phones in
\* order and a birthday
C5_Witness ==
    /\ last.op = "load_data"
    /\ fs[last.name] # <<>>
    /\ Len(loaded) = 2
    /\ \E i \in 1..2 :
        /\ loaded[i].rec.phones = <<P2, P1>>
        /\ loaded[i].rec.birthday = <<D_15_06_1990>>

-----------------------------------------------------------------------------
(* AppSpec: Main and Controller, one action per command read by the loop    *)

AppPhoneInputs == {P1, TooShort}

Welcome == "Welcome to Personal Assistant!"
Added == "Contact added successfully."
Goodbye == "Goodbye!"
NoContacts == "No contacts found."
Unknown == "Unknown command. Type 'help' for options."
HelpText == "Available commands: ..."
Listing == "{...}"

\* Controller.add_contact: the book it leaves and the error it lets escape
add_contact(d, name, phone) ==
    LET d1 == IF find(d, name) = <<>> THEN add_record(d, Record(name)) ELSE d
        result == add_phone(find(d1, name)[1], phone)
    IN  [data |-> SetItem(d1, name, result.rec), err |-> result.err]

AppInit ==
    /\ rec = <<>>
    /\ fs = NoFiles
    /\ data = load_data(NoFiles, DefaultFile)
    /\ loaded = <<>>
    /\ pc = "running"
    /\ out = Welcome
    /\ last = NoCall
    /\ before = <<>>

\* "add": nothing in add_contact or run catches the ValueError of Phone, so
\* it ends the loop and the process with a traceback
CmdAdd ==
    \E name \in Names, phone \in AppPhoneInputs :
        /\ pc = "running"
        /\ find(data, name) # <<>> => Len(find(data, name)[1].phones) < MaxAppPhones
        /\ LET r == add_contact(data, name, phone) IN
            /\ data' = r.data
            /\ last' = Call("add", name, phone, <<>>, r.err)
            /\ pc' = IF r.err = NoError THEN "running" ELSE "crashed"
            /\ out' = IF r.err = NoError THEN Added ELSE out
        /\ before' = data
        /\ UNCHANGED <<rec, fs, loaded>>

CmdList ==
    /\ pc = "running"
    /\ out' = IF data # <<>> THEN Listing ELSE NoContacts
    /\ last' = Call("list", <<>>, <<>>, <<>>, NoError)
    /\ before' = data
    /\ UNCHANGED <<rec, data, fs, loaded, pc>>

CmdHelp ==
    /\ pc = "running"
    /\ out' = HelpText
    /\ last' = Call("help", <<>>, <<>>, <<>>, NoError)
    /\ before' = data
    /\ UNCHANGED <<rec, data, fs, loaded, pc>>

CmdExit ==
    /\ pc = "running"
    /\ fs' = save_data(fs, data, DefaultFile)
    /\ out' = Goodbye
    /\ pc' = "exited"
    /\ last' = Call("exit", <<>>, <<>>, <<>>, NoError)
    /\ before' = data
    /\ UNCHANGED <<rec, data, loaded>>

CmdUnknown ==
    /\ pc = "running"
    /\ out' = Unknown
    /\ last' = Call("unknown", <<>>, <<>>, <<>>, NoError)
    /\ before' = data
    /\ UNCHANGED <<rec, data, fs, loaded, pc>>

\* the next run of the program: Main() loads the book, run() greets
Start ==
    /\ pc \in {"exited", "crashed"}
    /\ data' = load_data(fs, DefaultFile)
    /\ pc' = "running"
    /\ out' = Welcome
    /\ last' = Call("start", <<>>, <<>>, <<>>, NoError)
    /\ before' = data
    /\ UNCHANGED <<rec, fs, loaded>>

AppNext == CmdAdd \/ CmdList \/ CmdHelp \/ CmdExit \/ CmdUnknown \/ Start

AppSpec == AppInit /\ [][AppNext]_vars

\* C1: an add command whose phone is not 10 decimal digits is reported to
\* the user and leaves the loop running, ready for the next command.
C1_AsStated ==
    (last.op = "add" /\ ~TenDecimalDigits(last.a)) => pc = "running"

\* C4: when the process has ended, the book as it stands in memory is what
\* the backing file holds, and the next run starts with exactly the book the
\* previous run ended with.
C4_AsStated ==
    /\ pc \in {"exited", "crashed"} => load_data(fs, DefaultFile) = data
    /\ last.op = "start" => data = before

\* what C4 comes to on the runs that end with the exit command
C4_AfterExit == pc = "exited" => load_data(fs, DefaultFile) = data

\* C9: an add command whose phone is not 10 decimal digits leaves the book
\* exactly as it was before the command.
C9_AsStated ==
    (last.op = "add" /\ ~TenDecimalDigits(last.a)) => data = before

=============================================================================
